---- MODULE Spec2Model ----
(***************************************************************************)
(* Nexia Room IQ Sensors add-on (custom_components/nexia_roomiq).          *)
(*                                                                         *)
(* The add-on patches two functions of the sibling "nexia" integration at  *)
(* run time (the sensor platform's async_setup_entry and each              *)
(* coordinator's _async_update_data) and derives sensor entities from the  *)
(* per-zone JSON the sibling has fetched.                                  *)
(*                                                                         *)
(* Python values are modelled by the token of their repr: "None", "0",     *)
(* "7", "0.0", "" ... so that truthiness and defaults can be told apart.   *)
(*                                                                         *)
(* Tasks of the event loop: async_setup, one entry setup and one           *)
(* coordinator refresh are followed step by step, a step ending at each    *)
(* await.  An entry setup and a refresh do not overlap each other (the     *)
(* refresh of a coordinator starts once its entry is set up); both overlap *)
(* async_setup.  The zones' JSON is replaced by the sibling's own update,  *)
(* at an entry setup and at the end of every refresh.                      *)
(***************************************************************************)
EXTENDS Integers, Sequences, FiniteSets, TLC

(***************************************************************************)
(* Bounds of the model.                                                    *)
(***************************************************************************)
MaxSensors == 2      \* longest sensor list drawn as an input of _create_roomiq_sensors
MaxCoordinators == 2 \* coordinator objects created over a run (one per nexia entry setup)

(***************************************************************************)
(* Python values.                                                          *)
(***************************************************************************)
None == "None"

\* `not v` of Python for the values a sensor id or name can take.
Falsy(v) == v \in {"None", "0", "0.0", ""}

(***************************************************************************)
(* The vendor JSON of a zone.                                              *)
(*   zone._zone_json : [present, features]; present = FALSE models a zone  *)
(*   object without _zone_json (getattr default None).                     *)
(*   feature         : [name, sensors]                                     *)
(*   sensor record   : isdict = FALSE models a list element that is no     *)
(*   mapping, on which .get raises AttributeError.  A key that is absent   *)
(*   holds the default .get returns for it: "None" for values, FALSE for   *)
(*   flags; weight keeps "None" for absent because its default differs.    *)
(***************************************************************************)
SensorRecord(id, name, tv, t, hv, h, hb, bv, b, w) ==
    [isdict |-> TRUE, id |-> id, name |-> name,
     temperature_valid |-> tv, temperature |-> t,
     humidity_valid |-> hv, humidity |-> h,
     has_battery |-> hb, battery_valid |-> bv, battery_level |-> b,
     weight |-> w]

NotADict ==
    [isdict |-> FALSE, id |-> None, name |-> None,
     temperature_valid |-> FALSE, temperature |-> None,
     humidity_valid |-> FALSE, humidity |-> None,
     has_battery |-> FALSE, battery_valid |-> FALSE, battery_level |-> None,
     weight |-> None]

Feature(name, sensors) == [name |-> name, sensors |-> sensors]

NoZoneJson == [present |-> FALSE, features |-> <<>>]

ZoneJson(features) == [present |-> TRUE, features |-> features]

ROOM_IQ == "room_iq_sensors"

(***************************************************************************)
(* NexiaRoomIQSensor.__init__: the fields an entity keeps.  It keeps the   *)
(* zone and the sensor id, and no reading.                                 *)
(***************************************************************************)
NexiaRoomIQSensor(coordinator, zone, thermostat, sensor_id, sensor_name, sensor_type) ==
    [coordinator |-> coordinator, zone |-> zone, thermostat |-> thermostat,
     sensor_id |-> sensor_id, sensor_name |-> sensor_name,
     sensor_type |-> sensor_type]

\* The per-record body with the battery entity made without looking at
\* battery_valid.
ProcessSensorDataBatteryUnchecked(coordinator, zone, thermostat, sensor_data) ==
    IF ~sensor_data.isdict
    THEN [raised |-> TRUE, appended |-> <<>>]
    ELSE IF Falsy(sensor_data.id) \/ Falsy(sensor_data.name)
    THEN [raised |-> FALSE, appended |-> <<>>]
    ELSE LET mk(type) == NexiaRoomIQSensor(coordinator, zone, thermostat,
                                           sensor_data.id, sensor_data.name, type)
         IN  [raised |-> FALSE,
              appended |->
                 (IF sensor_data.temperature_valid THEN <<mk("temperature")>> ELSE <<>>)
              \o (IF sensor_data.humidity_valid THEN <<mk("humidity")>> ELSE <<>>)
              \o (IF sensor_data.has_battery THEN <<mk("battery")>> ELSE <<>>)
              \o <<mk("weight")>>]

(***************************************************************************)
(* _create_roomiq_sensors, body of the per-record try (lines 214-299).     *)
(* Result: the entities appended for the record and whether the body       *)
(* raised.  The only statement that raises on a list element is the first  *)
(* .get, before anything is appended.                                      *)
(***************************************************************************)
ProcessSensorData(coordinator, zone, thermostat, sensor_data) ==
    IF ~sensor_data.isdict
    THEN [raised |-> TRUE, appended |-> <<>>]
    ELSE IF Falsy(sensor_data.id) \/ Falsy(sensor_data.name)
    THEN [raised |-> FALSE, appended |-> <<>>]
    ELSE LET mk(type) == NexiaRoomIQSensor(coordinator, zone, thermostat,
                                           sensor_data.id, sensor_data.name, type)
         IN  [raised |-> FALSE,
              appended |->
                 (IF sensor_data.temperature_valid THEN <<mk("temperature")>> ELSE <<>>)
              \o (IF sensor_data.humidity_valid THEN <<mk("humidity")>> ELSE <<>>)
              \o (IF sensor_data.has_battery /\ sensor_data.battery_valid
                  THEN <<mk("battery")>> ELSE <<>>)
              \o <<mk("weight")>>]

\* The loop without the inner try: the first error leaves the loop for the
\* outer except, which returns what was appended so far.
RECURSIVE SensorLoopNoInnerTry(_, _, _, _)
SensorLoopNoInnerTry(coordinator, zone, thermostat, sensors) ==
    IF sensors = <<>> THEN <<>>
    ELSE LET r == ProcessSensorData(coordinator, zone, thermostat, Head(sensors))
         IN  IF r.raised THEN r.appended
             ELSE r.appended
                  \o SensorLoopNoInnerTry(coordinator, zone, thermostat, Tail(sensors))

\* The for loop over the sensor list with its inner try/except (lines 213-307):
\* a record that raises is logged and the loop goes on with the next one.
RECURSIVE SensorLoop(_, _, _, _)
SensorLoop(coordinator, zone, thermostat, sensors) ==
    IF sensors = <<>> THEN <<>>
    ELSE LET r == ProcessSensorData(coordinator, zone, thermostat, Head(sensors))
         IN  r.appended \o SensorLoop(coordinator, zone, thermostat, Tail(sensors))

\* The first feature named room_iq_sensors (lines 187-193); <<>> when none.
RECURSIVE FindRoomIQFeature(_)
FindRoomIQFeature(features) ==
    IF features = <<>> THEN <<>>
    ELSE IF Head(features).name = ROOM_IQ THEN <<Head(features)>>
    ELSE FindRoomIQFeature(Tail(features))

\* _create_roomiq_sensors(coordinator, zone, thermostat); zone_json is
\* zone._zone_json at the time of the call.
CreateRoomIQSensors(coordinator, zone, zone_json, thermostat) ==
    IF ~zone_json.present THEN <<>>
    ELSE LET f == FindRoomIQFeature(zone_json.features)
         IN  IF f = <<>> THEN <<>>
             ELSE IF f[1].sensors = <<>> THEN <<>>
             ELSE SensorLoop(coordinator, zone, thermostat, f[1].sensors)

(***************************************************************************)
(* NexiaRoomIQSensor._get_sensor_data (lines 395-416): the first record    *)
(* with the entity's sensor id, over every room_iq_sensors feature in      *)
(* order; <<>> stands for None.  A list element that is no mapping raises, *)
(* and the except returns None.                                            *)
(***************************************************************************)
RECURSIVE ScanSensors(_, _)
ScanSensors(sensors, sensor_id) ==
    IF sensors = <<>> THEN [found |-> <<>>, raised |-> FALSE]
    ELSE IF ~Head(sensors).isdict THEN [found |-> <<>>, raised |-> TRUE]
    ELSE IF Head(sensors).id = sensor_id
    THEN [found |-> <<Head(sensors)>>, raised |-> FALSE]
    ELSE ScanSensors(Tail(sensors), sensor_id)

RECURSIVE ScanFeatures(_, _)
ScanFeatures(features, sensor_id) ==
    IF features = <<>> THEN <<>>
    ELSE IF Head(features).name = ROOM_IQ
    THEN LET s == ScanSensors(Head(features).sensors, sensor_id)
         IN  IF s.raised THEN <<>>
             ELSE IF s.found # <<>> THEN s.found
             ELSE ScanFeatures(Tail(features), sensor_id)
    ELSE ScanFeatures(Tail(features), sensor_id)

GetSensorData(zone_json, sensor_id) ==
    IF ~zone_json.present THEN <<>>
    ELSE ScanFeatures(zone_json.features, sensor_id)

\* native_value that returns the metric whatever its valid flag says.
NativeValueIgnoringValid(entity, zone_json) ==
    LET sd == GetSensorData(zone_json, entity.sensor_id)
    IN  IF sd = <<>> THEN None
        ELSE CASE entity.sensor_type = "temperature" -> sd[1].temperature
               [] entity.sensor_type = "humidity" -> sd[1].humidity
               [] entity.sensor_type = "battery" -> sd[1].battery_level
               [] entity.sensor_type = "weight" ->
                    IF sd[1].weight = None THEN "0.0" ELSE sd[1].weight
               [] OTHER -> None

\* NexiaRoomIQSensor.native_value (lines 418-445), read against the zone's
\* JSON at the time of the read.
NativeValue(entity, zone_json) ==
    LET sd == GetSensorData(zone_json, entity.sensor_id)
    IN  IF sd = <<>> THEN None
        ELSE CASE entity.sensor_type = "temperature" ->
                    IF sd[1].temperature_valid THEN sd[1].temperature ELSE None
               [] entity.sensor_type = "humidity" ->
                    IF sd[1].humidity_valid THEN sd[1].humidity ELSE None
               [] entity.sensor_type = "battery" ->
                    IF sd[1].battery_valid THEN sd[1].battery_level ELSE None
               [] entity.sensor_type = "weight" ->
                    IF sd[1].weight = None THEN "0.0" ELSE sd[1].weight
               [] OTHER -> None

(***************************************************************************)
(* The installation the add-on runs in.  Two possible nexia config         *)
(* entries; entry 1's home has thermostats 1 and 2 with zones 1, 2 and 3,  *)
(* entry 2's home has thermostat 3 with zone 4.                            *)
(***************************************************************************)
Entries == {1, 2}

Zones == {1, 2, 3, 4}

\* nexia_home.get_thermostat_ids() of the home of a config entry
GetThermostatIds(entry) == IF entry = 1 THEN <<1, 2>> ELSE <<3>>

\* thermostat.get_zone_ids()
GetZoneIds(thermostat) ==
    CASE thermostat = 1 -> <<1, 2>>
      [] thermostat = 2 -> <<3>>
      [] OTHER -> <<4>>

\* The (thermostat, zone) pairs of a home in the order of the nested loops
\* `for thermostat_id ... for zone_id ...`.
RECURSIVE ZonePairs(_)
ZonePairs(thermostats) ==
    IF thermostats = <<>> THEN <<>>
    ELSE LET t == Head(thermostats)
             zs == GetZoneIds(t)
         IN  [i \in 1..Len(zs) |-> [thermostat |-> t, zone |-> zs[i]]]
             \o ZonePairs(Tail(thermostats))

ZonesOfEntry(entry) ==
    {p.zone : p \in {ZonePairs(GetThermostatIds(entry))[i] :
                        i \in 1..Len(ZonePairs(GetThermostatIds(entry)))}}

\* Readings the cloud can hold for a zone.
Den(tv, t, hv, h) == SensorRecord("7", "Den", tv, t, hv, h, TRUE, TRUE, "90", "0.5")

Hall == SensorRecord("8", "Hall", FALSE, None, FALSE, None, FALSE, FALSE, None, None)

Other == Feature("thermostat_mode", <<>>)

CloudDocs(zone) ==
    CASE zone = 1 -> { ZoneJson(<<Other, Feature(ROOM_IQ, <<Hall, Den(TRUE, "70", TRUE, "40")>>)>>),
                       ZoneJson(<<Other, Feature(ROOM_IQ, <<Hall, Den(TRUE, "72", FALSE, "40")>>)>>),
                       ZoneJson(<<Other, Feature(ROOM_IQ, <<Hall>>)>>) }
      [] zone = 2 -> { NoZoneJson }
      [] zone = 3 -> { ZoneJson(<<Other>>) }
      [] OTHER -> { ZoneJson(<<Feature(ROOM_IQ, <<Den(FALSE, "68", TRUE, "45")>>)>>) }

(***************************************************************************)
(* State.                                                                  *)
(***************************************************************************)
VARIABLES
    config_entries,            \* hass.config_entries.async_entries("nexia"): entry ids
    runtime_data,              \* config_entry.runtime_data: the entry's coordinator, 0 before setup
    coord_addr,                \* id(coordinator) of each coordinator object, 0 = not created
    coord_entry,               \* the config entry (home) a coordinator was created for
    async_update_data,         \* coordinator._async_update_data of each coordinator object
    nexia_async_setup_entry,   \* nexia_sensor_module.async_setup_entry
    original_async_setup_entry,\* _original_async_setup_entry
    injection_complete,        \* _injection_complete
    original_update_method,    \* _original_update_method: id -> saved bound method
    zone_json,                 \* zone._zone_json of each zone
    entities,                  \* Room IQ entities added to the sensor platform, per entry
    roomiq_done,               \* async_setup_roomiq_sensors returned for the entry's current setup
    boot,                      \* the task running async_setup
    st,                        \* the task setting up (or reloading) a config entry
    rf,                        \* the task running a coordinator refresh
    zin,                       \* input of a _create_roomiq_sensors call: zone._zone_json
    created,                   \* what that call returned
    cpc                        \* "input" before that call, "returned" after it

vars == <<config_entries, runtime_data, coord_addr, coord_entry, async_update_data,
          nexia_async_setup_entry, original_async_setup_entry, injection_complete,
          original_update_method, zone_json, entities, roomiq_done, boot, st, rf,
          zin, created, cpc>>

createVars == <<zin, created, cpc>>

patchVars == <<nexia_async_setup_entry, original_async_setup_entry, injection_complete>>

Coordinators == 1..MaxCoordinators

Addrs == 1..MaxCoordinators

\* Function values.
NEXIA_SETUP == "nexia.sensor.async_setup_entry"

SETUP_WRAPPER == "_async_setup_entry_wrapper"

NEXIA_UPDATE == "NexiaDataUpdateCoordinator._async_update_data"

REFRESH_WRAPPER == "_update_with_roomiq_refresh"

\* asyncio.sleep arguments
SetupDelay == 3

RefreshDelay == 5

(***************************************************************************)
(* Object identity.  id() is unique among the objects alive at a time and  *)
(* may be given again once an object is freed.  The bound methods saved in *)
(* _original_update_method reference their coordinator (line 104), and the *)
(* module-level dict is never emptied.                                     *)
(***************************************************************************)
RetainedNone(saved) == {}

Retained(saved) == {saved[a].self : a \in DOMAIN saved}

\* The coordinators alive once entry `unloaded` has been unloaded.
LiveCoordinators(unloaded) ==
    ({runtime_data[e] : e \in Entries \ {unloaded}}
        \cup Retained(original_update_method)
        \cup (IF rf.pc \in {"idle", "done"} THEN {} ELSE {rf.coord})) \ {0}

FreeAddrs(unloaded) == Addrs \ {coord_addr[c] : c \in LiveCoordinators(unloaded)}

NewCoordinators == {c \in Coordinators : coord_addr[c] = 0}

\* The addresses a new object can get, up to renaming of the addresses no
\* object has had yet: a free one that was used before, or the lowest new one.
UsedAddrs == {coord_addr[c] : c \in Coordinators} \ {0}

FreshAddrs(unloaded) ==
    {a \in FreeAddrs(unloaded) :
        a \in UsedAddrs \/ \A b \in FreeAddrs(unloaded) \ UsedAddrs : a <= b}

(***************************************************************************)
(* inject_roomiq_sensors (lines 38-54) on the three module attributes.     *)
(***************************************************************************)
InjectRoomIQSensors(g) ==
    IF g.complete THEN g
    ELSE [setup |-> SETUP_WRAPPER, original |-> g.setup, complete |-> TRUE]

Globals ==
    [setup |-> nexia_async_setup_entry, original |-> original_async_setup_entry,
     complete |-> injection_complete]

SetGlobals(g) ==
    /\ nexia_async_setup_entry' = g.setup
    /\ original_async_setup_entry' = g.original
    /\ injection_complete' = g.complete

(***************************************************************************)
(* async_setup (__init__.py lines 16-47).                                  *)
(*   boot.pc: "idle" not called, "sleep" in asyncio.sleep(3), "reload" in  *)
(*   the for loop, "done" returned.                                        *)
(***************************************************************************)
BootIdle ==
    [pc |-> "idle", result |-> "pending", found |-> {}, todo |-> <<>>,
     reloaded |-> {}, slept |-> 0, raised |-> FALSE, patched_first |-> TRUE]

\* The order async_entries lists a set of entries in.
RECURSIVE EntryList(_)
EntryList(S) ==
    IF S = {} THEN <<>>
    ELSE LET e == CHOOSE x \in S : \A y \in S : x <= y
         IN  <<e>> \o EntryList(S \ {e})

\* An except clause that logs and goes on as if nothing had happened.
OnSetupErrorTrue == "True"

\* What the except clause of async_setup returns (lines 45-47).
OnSetupError == "False"

\* Lines 16-21: the call, up to the sleep.  The platform calls async_setup
\* once, and again when an earlier call returned False.
AsyncSetupCall ==
    /\ \/ boot.pc = "idle"
       \/ boot.pc = "done" /\ boot.result = "False"
    /\ st.pc = "idle" /\ rf.pc = "idle"
    /\ boot' = [BootIdle EXCEPT !.pc = "sleep"]
    /\ UNCHANGED <<config_entries, runtime_data, coord_addr, coord_entry,
                   async_update_data, patchVars, original_update_method, zone_json,
                   entities, roomiq_done, st, rf, createVars>>

\* Check-then-inject variants of lines 25-35.
CheckAndInjectNoCheck(found, g) ==
    [result |-> "pending", globals |-> InjectRoomIQSensors(g)]

CheckAndInject(found, g) ==
    IF found = {} THEN [result |-> "False", globals |-> g]
    ELSE [result |-> "pending", globals |-> InjectRoomIQSensors(g)]

\* Lines 21-35: the sleep is over; the check, the import and the injection.
AsyncSetupCheck ==
    /\ boot.pc = "sleep"
    /\ st.pc = "idle" /\ rf.pc = "idle"
    /\ \E import_raises \in BOOLEAN :
         LET found == config_entries
             r == CheckAndInject(found, Globals)
         IN  IF r.result = "False"
             THEN /\ boot' = [boot EXCEPT !.pc = "done", !.result = "False",
                                          !.slept = SetupDelay, !.found = found]
                  /\ SetGlobals(r.globals)
             ELSE IF import_raises
             THEN /\ boot' = [boot EXCEPT !.pc = "done", !.result = OnSetupError,
                                          !.slept = SetupDelay, !.raised = TRUE,
                                          !.found = found]
                  /\ UNCHANGED patchVars
             ELSE /\ boot' = [boot EXCEPT !.pc = "reload", !.slept = SetupDelay,
                                          !.found = found, !.todo = EntryList(found)]
                  /\ SetGlobals(r.globals)
    /\ UNCHANGED <<config_entries, runtime_data, coord_addr, coord_entry,
                   async_update_data, original_update_method, zone_json,
                   entities, roomiq_done, st, rf, createVars>>

(***************************************************************************)
(* Setting up a config entry of the sibling (hass.config_entries           *)
(* async_setup / async_reload): the entry is unloaded if it was loaded, a  *)
(* new coordinator is created and stored as runtime_data, and the sensor   *)
(* platform's async_setup_entry, whatever it is at that time, is called.   *)
(*   st.pc: "idle", "platform" about to call the platform setup,           *)
(*   "original" the wrapper awaits the original, "sleep" the wrapper is in *)
(*   asyncio.sleep(0.5), "roomiq" about to run async_setup_roomiq_sensors. *)
(***************************************************************************)
StIdle == [pc |-> "idle", entry |-> 0, caller |-> "none", log |-> <<>>]

\* nexia_home.update(): the zones of the entry's home take what the cloud
\* holds now.
NexiaHomeUpdate(e) ==
    \E d1 \in CloudDocs(1), d2 \in CloudDocs(2), d3 \in CloudDocs(3), d4 \in CloudDocs(4) :
        LET d == <<d1, d2, d3, d4>>
        IN  zone_json' = [z \in Zones |->
                            IF z \in ZonesOfEntry(e) THEN d[z] ELSE zone_json[z]]

EntrySetupBegin(e, caller) ==
    /\ st.pc = "idle" /\ rf.pc = "idle"
    /\ NewCoordinators # {}
    /\ \E a \in FreshAddrs(e) :
         LET c == CHOOSE x \in NewCoordinators : \A y \in NewCoordinators : x <= y
         IN
         /\ coord_addr' = [coord_addr EXCEPT ![c] = a]
         /\ coord_entry' = [coord_entry EXCEPT ![c] = e]
         /\ runtime_data' = [runtime_data EXCEPT ![e] = c]
    /\ NexiaHomeUpdate(e)
    /\ entities' = [entities EXCEPT ![e] = <<>>]
    /\ roomiq_done' = [roomiq_done EXCEPT ![e] = FALSE]
    /\ st' = [pc |-> "platform", entry |-> e, caller |-> caller, log |-> <<>>]

\* A config entry of the sibling comes to exist (stored configuration is
\* loaded, or the user adds the integration); it is set up later.
AddConfigEntry(e) ==
    /\ e \notin config_entries
    /\ st.pc = "idle" /\ rf.pc = "idle"
    /\ config_entries' = config_entries \cup {e}
    /\ UNCHANGED <<runtime_data, coord_addr, coord_entry, async_update_data, patchVars,
                   original_update_method, zone_json, entities, roomiq_done, boot,
                   st, rf, createVars>>

\* The platform sets up a config entry, or the user reloads it.
EntrySetup(e) ==
    /\ e \in config_entries
    /\ EntrySetupBegin(e, "user")
    /\ UNCHANGED <<config_entries, async_update_data, patchVars,
                   original_update_method, boot, rf, createVars>>

\* __init__.py line 40: await hass.config_entries.async_reload(entry.entry_id)
AsyncSetupReload ==
    /\ boot.pc = "reload"
    /\ boot.todo # <<>>
    /\ \/ /\ EntrySetupBegin(Head(boot.todo), "async_setup")
          /\ boot' = [boot EXCEPT !.patched_first =
                          boot.patched_first /\ nexia_async_setup_entry = SETUP_WRAPPER]
       \/ \* async_reload raises: the except clause returns False
          /\ st.pc = "idle" /\ rf.pc = "idle"
          /\ boot' = [boot EXCEPT !.pc = "done", !.result = OnSetupError, !.raised = TRUE]
          /\ UNCHANGED <<runtime_data, coord_addr, coord_entry, entities, roomiq_done,
                         st, zone_json>>
    /\ UNCHANGED <<config_entries, async_update_data, patchVars,
                   original_update_method, rf, createVars>>

\* Lines 42-43: the loop is over.
AsyncSetupReturn ==
    /\ boot.pc = "reload"
    /\ boot.todo = <<>>
    /\ st.pc = "idle" /\ rf.pc = "idle"
    /\ boot' = [boot EXCEPT !.pc = "done", !.result = "True"]
    /\ UNCHANGED <<config_entries, runtime_data, coord_addr, coord_entry,
                   async_update_data, patchVars, original_update_method, zone_json,
                   entities, roomiq_done, st, rf, createVars>>

(***************************************************************************)
(* _async_setup_entry_wrapper (lines 57-73): the statement that follows    *)
(* each of its statements.                                                 *)
(***************************************************************************)
SetupWrapperNext(pc) ==
    CASE pc = "enter" -> "original"
      [] pc = "original" -> "sleep"
      [] pc = "sleep" -> "roomiq"
      [] OTHER -> "return"

\* The platform setup returns or raises.
SetupLeave(log) == st' = [st EXCEPT !.pc = "returned", !.log = log]

SetupGoto(pc, log) ==
    IF pc = "return" THEN SetupLeave(log)
    ELSE st' = [st EXCEPT !.pc = pc, !.log = log]

\* The entry's setup is over; a reload started by async_setup returns to
\* its for loop (the platform logs what a platform setup raises).
EntrySetupEnd ==
    /\ st.pc = "returned"
    /\ st' = StIdle
    /\ IF st.caller = "async_setup"
       THEN boot' = [boot EXCEPT !.todo = Tail(boot.todo),
                                 !.reloaded = boot.reloaded \cup {st.entry}]
       ELSE UNCHANGED boot
    /\ UNCHANGED <<config_entries, runtime_data, coord_addr, coord_entry,
                   async_update_data, patchVars, original_update_method, zone_json,
                   entities, roomiq_done, rf, createVars>>

\* The platform calls nexia_sensor_module.async_setup_entry, whatever it is now.
PlatformSetupCall ==
    /\ st.pc = "platform"
    /\ IF nexia_async_setup_entry = SETUP_WRAPPER
       THEN SetupGoto(SetupWrapperNext("enter"), <<"wrapper">>)
       ELSE \E raises \in BOOLEAN :
              SetupLeave(<<IF raises THEN "original_raised" ELSE "original_done">>)
    /\ UNCHANGED <<config_entries, runtime_data, coord_addr, coord_entry,
                   async_update_data, patchVars, original_update_method, zone_json,
                   entities, roomiq_done, boot, rf, createVars>>

\* The platform setup is called again for the coordinator the entry already has.
PlatformSetupAgain(e) ==
    /\ st.pc = "idle" /\ rf.pc = "idle"
    /\ runtime_data[e] # 0
    /\ st' = [pc |-> "platform", entry |-> e, caller |-> "user", log |-> <<>>]
    /\ UNCHANGED <<config_entries, runtime_data, coord_addr, coord_entry,
                   async_update_data, patchVars, original_update_method, zone_json,
                   entities, roomiq_done, boot, rf, createVars>>

\* Lines 64-65: if _original_async_setup_entry: await it.
WrapperCallOriginal ==
    /\ st.pc = "original"
    /\ IF Falsy(original_async_setup_entry)
       THEN SetupGoto(SetupWrapperNext("original"), st.log)
       ELSE IF original_async_setup_entry = SETUP_WRAPPER
       THEN \* the wrapper awaits itself without end: RecursionError
            SetupLeave(Append(st.log, "recursion"))
       ELSE \/ SetupGoto(SetupWrapperNext("original"), Append(st.log, "original_done"))
            \/ SetupLeave(Append(st.log, "original_raised"))
    /\ UNCHANGED <<config_entries, runtime_data, coord_addr, coord_entry,
                   async_update_data, patchVars, original_update_method, zone_json,
                   entities, roomiq_done, boot, rf, createVars>>

\* Line 71: await asyncio.sleep(0.5)
WrapperSleep ==
    /\ st.pc = "sleep"
    /\ SetupGoto(SetupWrapperNext("sleep"), Append(st.log, "sleep"))
    /\ UNCHANGED <<config_entries, runtime_data, coord_addr, coord_entry,
                   async_update_data, patchVars, original_update_method, zone_json,
                   entities, roomiq_done, boot, rf, createVars>>

\* Line 99: whether the coordinator's update method is to be wrapped.
NeedsWrapAlways(addr, saved) == TRUE

NeedsWrap(addr, saved) == addr \notin DOMAIN saved

\* Lines 152-162: the entities of every zone of the home, in loop order.
RECURSIVE EntitiesOfPairs(_, _, _)
EntitiesOfPairs(coordinator, pairs, json) ==
    IF pairs = <<>> THEN <<>>
    ELSE CreateRoomIQSensors(coordinator, Head(pairs).zone, json[Head(pairs).zone],
                             Head(pairs).thermostat)
         \o EntitiesOfPairs(coordinator, Tail(pairs), json)

\* f"{zone.zone_id}_roomiq_{sensor_id}_{sensor_type}" (line 363)
UniqueId(entity) == <<entity.zone, "roomiq", entity.sensor_id, entity.sensor_type>>

\* async_add_entities (line 167): the platform keeps one entity per unique id.
RECURSIVE AsyncAddEntities(_, _)
AsyncAddEntities(present, new) ==
    IF new = <<>> THEN present
    ELSE IF \E i \in 1..Len(present) : UniqueId(present[i]) = UniqueId(Head(new))
    THEN AsyncAddEntities(present, Tail(new))
    ELSE AsyncAddEntities(Append(present, Head(new)), Tail(new))

\* async_setup_roomiq_sensors (lines 76-167), which awaits nothing.
SetupRoomIQSensors ==
    /\ st.pc = "roomiq"
    /\ LET e == st.entry
           coordinator == runtime_data[e]
           addr == coord_addr[coordinator]
       IN  /\ IF NeedsWrap(addr, original_update_method)
              THEN /\ original_update_method' =
                        [a \in DOMAIN original_update_method \cup {addr} |->
                            IF a = addr
                            THEN [fn |-> async_update_data[coordinator],
                                  self |-> coordinator]
                            ELSE original_update_method[a]]
                   /\ async_update_data' =
                        [async_update_data EXCEPT ![coordinator] = REFRESH_WRAPPER]
              ELSE UNCHANGED <<original_update_method, async_update_data>>
           /\ LET log == Append(st.log, IF NeedsWrap(addr, original_update_method)
                                        THEN "wrapped" ELSE "already_wrapped")
              IN
              \/ \* the zones are enumerated and the entities added
                 /\ entities' = [entities EXCEPT ![e] =
                        AsyncAddEntities(@, EntitiesOfPairs(coordinator,
                                             ZonePairs(GetThermostatIds(e)), zone_json))]
                 /\ roomiq_done' = [roomiq_done EXCEPT ![e] = TRUE]
                 /\ SetupGoto(SetupWrapperNext("roomiq"), Append(log, "roomiq_added"))
              \/ \* enumerating the home raises (lines 155-159): nothing is added
                 /\ UNCHANGED <<entities, roomiq_done>>
                 /\ SetupLeave(Append(log, "roomiq_raised"))
    /\ UNCHANGED <<config_entries, runtime_data, coord_addr, coord_entry, patchVars,
                   zone_json, boot, rf, createVars>>

(***************************************************************************)
(* A coordinator refresh: the platform calls coordinator._async_update_data*)
(* which is the sibling's method or _update_with_roomiq_refresh (lines     *)
(* 107-145).                                                               *)
(*   rf.pc: "idle", "request" in the zone loop, "sleep", "original",       *)
(*   "done".  rf.pairs: the zones still to be asked.  rf.enum_failed:      *)
(*   enumerating thermostats or zones raises once rf.pairs are through.    *)
(*   rf.log: what the run did, in order.                                   *)
(***************************************************************************)
RfIdle ==
    [pc |-> "idle", coord |-> 0, wrapped |-> FALSE, pairs |-> <<>>,
     enumerated |-> <<>>, enum_failed |-> FALSE, log |-> <<>>, orig_outcome |-> "none",
     result |-> "none"]

\* An entry of rf.log: what was done, and to which zone or for how long.
Ev(ev, arg) == [ev |-> ev, arg |-> arg]

\* The wrapper with the sleep inside the zone loop.
RefreshWrapperSleepPerZone(pc, pairs_left, enum_failed, request_ok) ==
    CASE pc = "enter" ->
            IF pairs_left # <<>> THEN "request"
            ELSE IF enum_failed THEN "original" ELSE "sleep"
      [] pc = "request" -> "sleep"
      [] pc = "sleep" -> IF pairs_left # <<>> THEN "request" ELSE "original"
      [] OTHER -> "return"

\* The wrapper without the try around the request of one zone.
RefreshWrapperNoZoneTry(pc, pairs_left, enum_failed, request_ok) ==
    CASE pc \in {"enter", "request"} ->
            IF ~request_ok THEN "original"
            ELSE IF pairs_left # <<>> THEN "request"
            ELSE IF enum_failed THEN "original" ELSE "sleep"
      [] pc = "sleep" -> "original"
      [] OTHER -> "return"

\* The wrapper calling the original refresh before asking the zones.
RefreshWrapperOriginalFirst(pc, pairs_left, enum_failed, request_ok) ==
    CASE pc = "enter" -> "original"
      [] pc \in {"original", "request"} ->
            IF pairs_left # <<>> THEN "request"
            ELSE IF enum_failed THEN "return" ELSE "sleep"
      [] OTHER -> "return"

\* The statement that follows each statement of _update_with_roomiq_refresh:
\* the zone loop (lines 112-131), whose inner except keeps it going; the
\* sleep (line 136), skipped when the outer except takes over (line 138);
\* the original (line 143); the return.
RefreshWrapperNext(pc, pairs_left, enum_failed, request_ok) ==
    CASE pc \in {"enter", "request"} ->
            IF pairs_left # <<>> THEN "request"
            ELSE IF enum_failed THEN "original" ELSE "sleep"
      [] pc = "sleep" -> "original"
      [] OTHER -> "return"

RfGoto(r, pc) ==
    rf' = [r EXCEPT !.pc = IF pc = "return" THEN "done" ELSE pc]

\* The refresh has returned or raised; the task is over.
RefreshEnd ==
    /\ rf.pc = "done"
    /\ rf' = RfIdle
    /\ UNCHANGED <<config_entries, runtime_data, coord_addr, coord_entry,
                   async_update_data, patchVars, original_update_method, zone_json,
                   entities, roomiq_done, boot, st, createVars>>

\* The zones reached before an enumeration call (get_thermostat_ids,
\* get_thermostat_by_id, get_zone_ids, get_zone_by_id: lines 111-114, outside
\* the inner try) raises: every one of them when none does.
RECURSIVE Prefix(_, _)
Prefix(seq, n) == IF n = 0 THEN <<>> ELSE Append(Prefix(seq, n - 1), seq[n])

RefreshBegin(e) ==
    /\ rf.pc = "idle"
    /\ runtime_data[e] # 0
    /\ st.pc = "idle"
    /\ LET c == runtime_data[e]
           all == ZonePairs(GetThermostatIds(e))
       IN  IF async_update_data[c] = REFRESH_WRAPPER
           THEN \E n \in 0..Len(all) :
                  LET pairs == Prefix(all, n)
                      r == [RfIdle EXCEPT !.coord = c, !.wrapped = TRUE,
                                          !.pairs = pairs, !.enumerated = pairs,
                                          !.enum_failed = (n < Len(all))]
                  IN  RfGoto(r, RefreshWrapperNext("enter", pairs, n < Len(all), TRUE))
           ELSE rf' = [RfIdle EXCEPT !.coord = c, !.pc = "original"]
    /\ UNCHANGED <<config_entries, runtime_data, coord_addr, coord_entry,
                   async_update_data, patchVars, original_update_method, zone_json,
                   entities, roomiq_done, boot, st, createVars>>

\* Lines 115-131: await zone.load_current_sensor_state(), which may raise.
RefreshRequest ==
    /\ rf.pc = "request"
    /\ \E ok \in BOOLEAN :
         LET z == Head(rf.pairs).zone
             r == [rf EXCEPT !.pairs = Tail(rf.pairs),
                             !.log = Append(rf.log,
                                 Ev(IF ok THEN "request" ELSE "request_failed", z))]
         IN  RfGoto(r, RefreshWrapperNext("request", r.pairs, rf.enum_failed, ok))
    /\ UNCHANGED <<config_entries, runtime_data, coord_addr, coord_entry,
                   async_update_data, patchVars, original_update_method, zone_json,
                   entities, roomiq_done, boot, st, createVars>>

\* Line 136: await asyncio.sleep(5)
RefreshSleep ==
    /\ rf.pc = "sleep"
    /\ LET r == [rf EXCEPT !.log = Append(rf.log, Ev("sleep", RefreshDelay))]
       IN  RfGoto(r, RefreshWrapperNext("sleep", rf.pairs, rf.enum_failed, TRUE))
    /\ UNCHANGED <<config_entries, runtime_data, coord_addr, coord_entry,
                   async_update_data, patchVars, original_update_method, zone_json,
                   entities, roomiq_done, boot, st, createVars>>

\* The method the refresh ends up calling: the coordinator's own when it is
\* not wrapped, else _original_update_method[id(coordinator)] (line 143).
OriginalOf(coordinator) ==
    IF rf.wrapped THEN original_update_method[coord_addr[coordinator]].fn
    ELSE async_update_data[coordinator]

\* The sibling's refresh: the zones of the home take what the cloud holds
\* now, or the fetch raises.  A coordinator that a reload has replaced
\* refreshes a home no entity reads any more.
RefreshOriginal ==
    /\ rf.pc = "original"
    /\ IF OriginalOf(rf.coord) = REFRESH_WRAPPER
       THEN \* the wrapper awaits itself without end: RecursionError
            /\ RfGoto([rf EXCEPT !.log = Append(rf.log, Ev("recursion", 0)),
                                 !.orig_outcome = "RecursionError",
                                 !.result = "RecursionError"],
                      "return")
            /\ UNCHANGED zone_json
       ELSE \E outcome \in {"data", "UpdateFailed"} :
              LET e == coord_entry[rf.coord]
                  r == [rf EXCEPT !.log = Append(rf.log, Ev("original", 0)),
                                  !.orig_outcome = outcome,
                                  !.result = outcome]
              IN  /\ RfGoto(r, RefreshWrapperNext("original", rf.pairs,
                                                  rf.enum_failed, TRUE))
                  /\ IF outcome = "data" /\ runtime_data[e] = rf.coord
                     THEN NexiaHomeUpdate(e)
                     ELSE UNCHANGED zone_json
    /\ UNCHANGED <<config_entries, runtime_data, coord_addr, coord_entry,
                   async_update_data, patchVars, original_update_method,
                   entities, roomiq_done, boot, st, createVars>>

(***************************************************************************)
(* The running system.                                                     *)
(***************************************************************************)
InitProgram ==
    /\ config_entries = {}
    /\ runtime_data = [e \in Entries |-> 0]
    /\ coord_addr = [c \in Coordinators |-> 0]
    /\ coord_entry = [c \in Coordinators |-> 0]
    /\ async_update_data = [c \in Coordinators |-> NEXIA_UPDATE]
    /\ nexia_async_setup_entry = NEXIA_SETUP
    /\ original_async_setup_entry = None
    /\ injection_complete = FALSE
    /\ original_update_method = [a \in {} |-> 0]
    /\ zone_json = [z \in Zones |-> NoZoneJson]
    /\ entities = [e \in Entries |-> <<>>]
    /\ roomiq_done = [e \in Entries |-> FALSE]
    /\ boot = BootIdle
    /\ st = StIdle
    /\ rf = RfIdle

Init ==
    /\ InitProgram
    /\ zin = NoZoneJson
    /\ created = <<>>
    /\ cpc = "input"

Next ==
    \/ AsyncSetupCall
    \/ AsyncSetupCheck
    \/ AsyncSetupReload
    \/ AsyncSetupReturn
    \/ \E e \in Entries : AddConfigEntry(e)
    \/ \E e \in Entries : EntrySetup(e)
    \/ EntrySetupEnd
    \/ RefreshEnd
    \/ \E e \in Entries : PlatformSetupAgain(e)
    \/ PlatformSetupCall
    \/ WrapperCallOriginal
    \/ WrapperSleep
    \/ SetupRoomIQSensors
    \/ \E e \in Entries : RefreshBegin(e)
    \/ RefreshRequest
    \/ RefreshSleep
    \/ RefreshOriginal

Spec == Init /\ [][Next]_vars

(***************************************************************************)
(* _create_roomiq_sensors as a function of the zone's JSON.                *)
(***************************************************************************)
Flagged(tv, hv, hb, bv) ==
    SensorRecord("7", "Den", tv, "70", hv, "40", hb, bv, "90", "0.5")

Named(id, name) ==
    SensorRecord(id, name, TRUE, "71", TRUE, "41", TRUE, TRUE, "91", None)

\* The list elements drawn: one that is no mapping, a record with an id and
\* a name under every setting of the four flags, and records with all flags
\* set whose id or name is absent, zero or empty.
RecordInputs ==
    {NotADict}
    \cup {Flagged(tv, hv, hb, bv) : tv \in BOOLEAN, hv \in BOOLEAN,
                                    hb \in BOOLEAN, bv \in BOOLEAN}
    \cup {Named(None, "Hall"), Named("0", "Hall"), Named("8", None),
          Named("8", ""), Named("8", "Hall")}

\* The places a sensor list is put at in the zone's JSON.
WithSensors(shape, sensors) ==
    CASE shape = "alone" -> ZoneJson(<<Feature(ROOM_IQ, sensors)>>)
      [] shape = "after" -> ZoneJson(<<Other, Feature(ROOM_IQ, sensors)>>)
      [] OTHER -> ZoneJson(<<Feature(ROOM_IQ, sensors),
                             Feature(ROOM_IQ, <<Named("8", "Hall")>>)>>)

InitCreate ==
    /\ InitProgram
    /\ \/ zin \in {NoZoneJson, ZoneJson(<<>>), ZoneJson(<<Other>>)}
       \/ \E k \in 0..MaxSensors : \E sensors \in [1..k -> RecordInputs] :
            \E shape \in {"alone", "after", "before"} :
               zin = WithSensors(shape, sensors)
    /\ created = <<>>
    /\ cpc = "input"

\* entities.extend(_create_roomiq_sensors(coordinator, zone, thermostat)), line 162
CreateCall ==
    /\ cpc = "input"
    /\ created' = CreateRoomIQSensors(1, 1, zin, 1)
    /\ cpc' = "returned"
    /\ UNCHANGED <<config_entries, runtime_data, coord_addr, coord_entry,
                   async_update_data, patchVars, original_update_method, zone_json,
                   entities, roomiq_done, boot, st, rf, zin>>

NextCreate == CreateCall

SpecCreate == InitCreate /\ [][NextCreate]_vars

(***************************************************************************)
(* Properties of _create_roomiq_sensors (under SpecCreate).                *)
(***************************************************************************)
SensorTypes == {"temperature", "humidity", "battery", "weight"}

\* The sensor records of the zone's room_iq_sensors feature (the first one
\* of that name), <<>> when the zone has no JSON or no such feature.
HasRoomIQFeature(json) ==
    json.present /\ \E i \in 1..Len(json.features) : json.features[i].name = ROOM_IQ

RoomIQRecords(json) ==
    IF ~HasRoomIQFeature(json) THEN <<>>
    ELSE LET idx == {i \in 1..Len(json.features) : json.features[i].name = ROOM_IQ}
             first == CHOOSE i \in idx : \A k \in idx : i <= k
         IN  json.features[first].sensors

\* The record carries an identifier and a display name: it is a mapping whose
\* id and name are there and are not empty or zero (`not sensor_id`).
Carries(r) == r.isdict /\ r.id \notin {None, "0", ""} /\ r.name \notin {None, ""}

\* The entity type is due for the record.
Due(r, type) ==
    CASE type = "temperature" -> r.temperature_valid
      [] type = "humidity" -> r.humidity_valid
      [] type = "battery" -> r.has_battery /\ r.battery_valid
      [] OTHER -> TRUE

EntityCount(ents, id, name, type) ==
    Cardinality({i \in 1..Len(ents) :
        /\ ents[i].sensor_id = id
        /\ ents[i].sensor_name = name
        /\ ents[i].sensor_type = type})

RecordCount(recs, id, name, type) ==
    Cardinality({i \in 1..Len(recs) :
        /\ Carries(recs[i])
        /\ recs[i].id = id
        /\ recs[i].name = name
        /\ Due(recs[i], type)})

InputIds == {None, "0", "7", "8"}

InputNames == {None, "", "Den", "Hall"}

\* C4: for a zone whose JSON has a room_iq_sensors feature, the entities
\* returned are, record by record, one temperature entity iff
\* temperature_valid, one humidity entity iff humidity_valid, one battery
\* entity iff has_battery and battery_valid, and one weight entity, for the
\* records that carry an id and a name; records lacking either give nothing,
\* and nothing else is returned.
C4_EntitiesPerRecord ==
    (cpc = "returned" /\ HasRoomIQFeature(zin)) =>
        LET recs == RoomIQRecords(zin)
        IN  /\ \A id \in InputIds, name \in InputNames, type \in SensorTypes :
                 EntityCount(created, id, name, type) = RecordCount(recs, id, name, type)
            /\ \A i \in 1..Len(created) :
                 /\ created[i].sensor_type \in SensorTypes
                 /\ created[i].sensor_id \in InputIds
                 /\ created[i].sensor_name \in InputNames

\* A call on two records: one with an id and a name whose temperature alone
\* is valid, one without a usable id; two entities came back.
C4_Witness ==
    /\ cpc = "returned"
    /\ HasRoomIQFeature(zin)
    /\ Len(RoomIQRecords(zin)) = 2
    /\ \E i, k \in 1..2 :
         /\ Carries(RoomIQRecords(zin)[i])
         /\ RoomIQRecords(zin)[i].temperature_valid
         /\ ~RoomIQRecords(zin)[i].humidity_valid
         /\ ~RoomIQRecords(zin)[i].battery_valid
         /\ RoomIQRecords(zin)[k].isdict
         /\ RoomIQRecords(zin)[k].id = "0"
    /\ Len(created) = 2

\* The zone's JSON with the list elements that make the per-record body
\* raise taken out of every sensor list.
IsDict(r) == r.isdict

WithoutRaising(json) ==
    [json EXCEPT !.features =
        [i \in 1..Len(json.features) |->
            [json.features[i] EXCEPT !.sensors = SelectSeq(@, IsDict)]]]

\* C6: the call returns an empty list when the zone has no JSON, no
\* room_iq_sensors feature or an empty sensor list; a record whose processing
\* raises adds nothing, and the entities of the zone's other records are all
\* returned, in order.
C6_EmptyNotRaise ==
    cpc = "returned" =>
        /\ (~zin.present \/ ~HasRoomIQFeature(zin) \/ RoomIQRecords(zin) = <<>>)
              => created = <<>>
        /\ created = CreateRoomIQSensors(1, 1, WithoutRaising(zin), 1)
        /\ \A id \in InputIds, name \in InputNames, type \in SensorTypes :
              EntityCount(created, id, name, type)
                 = RecordCount(RoomIQRecords(zin), id, name, type)

\* A call on a list whose first element raises and whose second is a good
\* record: the second one's entities came back.
C6_Witness ==
    /\ cpc = "returned"
    /\ Len(RoomIQRecords(zin)) = 2
    /\ ~RoomIQRecords(zin)[1].isdict
    /\ Carries(RoomIQRecords(zin)[2])
    /\ Len(created) >= 1

(***************************************************************************)
(* Properties of the patching and of the patched functions (under Spec).   *)
(***************************************************************************)
Count(log, ev) == Cardinality({i \in 1..Len(log) : log[i].ev = ev})

Positions(log, evs) == {i \in 1..Len(log) : log[i].ev \in evs}

Requests == {"request", "request_failed"}

AddedLogic == {"sleep", "wrapped", "already_wrapped", "roomiq_added", "roomiq_raised"}

\* In a call of the setup wrapper, the sibling's original setup has returned
\* before anything of the add-on's own logic runs, and nothing of it runs
\* when the original raised.
SetupOriginalFirst ==
    \A i \in 1..Len(st.log) :
        st.log[i] \in AddedLogic =>
            /\ \E k \in 1..(i - 1) : st.log[k] = "original_done"
            /\ \A k \in 1..Len(st.log) : st.log[k] # "original_raised"

\* C1 as stated: in both patched functions the original runs to completion
\* first and the add-on's logic (adding entities; requesting fresh data and
\* waiting) only afterwards.
C1_OriginalThenAddon ==
    /\ SetupOriginalFirst
    /\ rf.wrapped =>
         \A i \in Positions(rf.log, Requests \cup {"sleep"}) :
            \E k \in 1..(i - 1) : rf.log[k].ev = "original"

\* C1 amended: the setup wrapper runs the original first and its own logic
\* afterwards; the refresh wrapper runs its own logic (the requests, then
\* the wait) first and the original last.
C1_SetupOriginalFirstRefreshOriginalLast ==
    /\ SetupOriginalFirst
    /\ rf.wrapped =>
         /\ \A i \in Positions(rf.log, {"original"}) : i = Len(rf.log)
         /\ \A i \in Positions(rf.log, Requests) :
               \A k \in Positions(rf.log, {"sleep"}) : i < k
         /\ rf.pc = "done" => Count(rf.log, "original") = 1

\* A wrapped refresh that asked a zone, waited and then ran the original.
C1_Witness ==
    /\ rf.pc = "done"
    /\ rf.wrapped
    /\ Count(rf.log, "request") >= 1
    /\ Count(rf.log, "sleep") = 1
    /\ rf.log[Len(rf.log)].ev = "original"

\* C2: async_setup replaces the sibling's setup function only if its one
\* check, made after the 3 second delay, finds a config entry; when it finds
\* none it returns False, the function is left as it was and nothing is
\* reloaded.
C2_SingleCheck ==
    /\ boot.pc \in {"reload", "done"} =>
         /\ boot.slept = SetupDelay
         /\ boot.found = {} =>
              /\ boot.pc = "done"
              /\ boot.result = "False"
              /\ boot.reloaded = {}
              /\ nexia_async_setup_entry = NEXIA_SETUP
              /\ ~injection_complete
         /\ nexia_async_setup_entry = SETUP_WRAPPER => boot.found # {}
    /\ (st.caller = "async_setup") => boot.found # {}
    /\ nexia_async_setup_entry = SETUP_WRAPPER => config_entries # {}

\* async_setup found no entry and returned False; an entry that came later
\* is set up by the sibling's own function.
C2_Witness ==
    /\ boot.pc = "done"
    /\ boot.found = {}
    /\ boot.result = "False"
    /\ \E e \in config_entries : runtime_data[e] # 0
    /\ st.pc = "returned"
    /\ st.log = <<"original_done">>

\* C3: once async_setup_roomiq_sensors has completed for a config entry
\* (for the setup that attached the entry's present coordinator), the
\* coordinator now attached to the entry has the refresh wrapper as its
\* refresh method and the sibling's setup function is the setup wrapper,
\* whatever reloads came before and whatever ids the coordinators got.
C3_CurrentCoordinatorWrapped ==
    \A e \in Entries :
        roomiq_done[e] =>
            /\ runtime_data[e] # 0
            /\ async_update_data[runtime_data[e]] = REFRESH_WRAPPER
            /\ nexia_async_setup_entry = SETUP_WRAPPER

\* After a reload, the entry's coordinator has the id an earlier, discarded
\* coordinator had, and async_setup_roomiq_sensors has completed for it.
C3_Witness ==
    \E e \in Entries : \E old \in Coordinators :
        /\ roomiq_done[e]
        /\ old # runtime_data[e]
        /\ coord_entry[old] = e
        /\ coord_addr[old] = coord_addr[runtime_data[e]]

\* The value the zone's JSON holds for an entity: that of the first record
\* with the entity's sensor id among the room_iq_sensors features.
AllRecords(json) ==
    IF ~json.present THEN {}
    ELSE UNION {{<<i, k>> : k \in 1..Len(json.features[i].sensors)} :
                  i \in {n \in 1..Len(json.features) : json.features[n].name = ROOM_IQ}}

ValueInJson(json, id, type) ==
    LET at == {p \in AllRecords(json) : json.features[p[1]].sensors[p[2]].id = id}
    IN  IF at = {} THEN None
        ELSE LET p == CHOOSE q \in at : \A o \in at :
                          q[1] < o[1] \/ (q[1] = o[1] /\ q[2] <= o[2])
                 r == json.features[p[1]].sensors[p[2]]
             IN  CASE type = "temperature" /\ r.temperature_valid -> r.temperature
                   [] type = "humidity" /\ r.humidity_valid -> r.humidity
                   [] type = "battery" /\ r.battery_valid -> r.battery_level
                   [] type = "weight" /\ r.weight # None -> r.weight
                   [] type = "weight" /\ r.weight = None -> "0.0"
                   [] OTHER -> None

ValuesCurrent ==
    \A e \in Entries : \A i \in 1..Len(entities[e]) :
        LET ent == entities[e][i]
        IN  NativeValue(ent, zone_json[ent.zone])
               = ValueInJson(zone_json[ent.zone], ent.sensor_id, ent.sensor_type)

\* C5: at any time an entity's native_value is what the zone's current JSON
\* holds for the entity's sensor id (None when the record is gone or the
\* metric is not valid), and the entities of an entry change only when the
\* entry is set up again (unloading them) or async_setup_roomiq_sensors adds
\* them, never on a refresh.
C5_NoCachedReading ==
    /\ []ValuesCurrent
    /\ [][\A e \in Entries :
            entities'[e] # entities[e] =>
               \/ st.pc = "idle" /\ st'.pc = "platform" /\ st'.entry = e
                    /\ entities'[e] = <<>>
               \/ st.pc = "roomiq" /\ st.entry = e]_vars

\* An entity made for the Den's temperature whose record a later refresh
\* removed: it reads None now.
C5_Witness ==
    \E i \in 1..Len(entities[1]) :
        /\ entities[1][i].sensor_id = "7"
        /\ entities[1][i].sensor_type = "temperature"
        /\ GetSensorData(zone_json[1], "7") = <<>>
        /\ NativeValue(entities[1][i], zone_json[1]) = None
        /\ rf.pc = "done"

\* The zones of the home of the coordinator a refresh runs for.
HomePairs == ZonePairs(GetThermostatIds(coord_entry[rf.coord]))

PairZones(pairs) == {pairs[i].zone : i \in 1..Len(pairs)}

RequestsTo(zone) ==
    Cardinality({i \in 1..Len(rf.log) : rf.log[i].ev \in Requests /\ rf.log[i].arg = zone})

\* The run made no second pass: the original was called once, as the last
\* thing, and what it returned or raised is the run's outcome.
OriginalOnceAndLast ==
    /\ Count(rf.log, "original") = 1
    /\ rf.log # <<>>
    /\ rf.log[Len(rf.log)].ev = "original"
    /\ rf.orig_outcome \in {"data", "UpdateFailed"}
    /\ rf.result = rf.orig_outcome

\* C7 as stated: every run of the wrapped refresh sends one request per zone
\* of every thermostat, then sleeps 5 seconds exactly once, then calls the
\* original exactly once and returns its result.
C7_EveryRunOneSleep ==
    (rf.pc = "done" /\ rf.wrapped) =>
        /\ \A z \in PairZones(HomePairs) : RequestsTo(z) = 1
        /\ Count(rf.log, "sleep") = 1
        /\ OriginalOnceAndLast

\* C7 amended: a run of the wrapped refresh is a single pass without retry.
\* It sends one request to each zone it enumerates, in order; when
\* enumerating the thermostats and zones did not raise these are all the
\* zones of the home and the run then sleeps 5 seconds exactly once, after
\* the last request; when enumerating raised, the zones not reached get no
\* request and the sleep is skipped.  Either way the original is then called
\* exactly once and its result returned.
C7_SinglePass ==
    /\ rf.wrapped =>
         /\ \A z \in Zones : RequestsTo(z) <= 1
         /\ Count(rf.log, "sleep") <= 1
         /\ \A i \in Positions(rf.log, {"sleep"}) : rf.log[i].arg = RefreshDelay
         /\ Count(rf.log, "original") <= 1
    /\ (rf.pc = "done" /\ rf.wrapped) =>
         /\ \A z \in Zones :
               RequestsTo(z) = IF z \in PairZones(rf.enumerated) THEN 1 ELSE 0
         /\ \A i \in 1..Len(rf.enumerated) :
               /\ i <= Len(rf.log)
               /\ rf.log[i].ev \in Requests
               /\ rf.log[i].arg = rf.enumerated[i].zone
         /\ ~rf.enum_failed =>
               /\ rf.enumerated = HomePairs
               /\ Count(rf.log, "sleep") = 1
               /\ Len(rf.log) > Len(rf.enumerated)
               /\ rf.log[Len(rf.enumerated) + 1].ev = "sleep"
         /\ rf.enum_failed => Count(rf.log, "sleep") = 0
         /\ OriginalOnceAndLast

\* A run over a home of two thermostats and three zones: three requests, one
\* sleep, one call of the original.
C7_Witness ==
    /\ rf.pc = "done"
    /\ rf.wrapped
    /\ ~rf.enum_failed
    /\ Len(rf.enumerated) = 3
    /\ Len(rf.log) = 5
    /\ Count(rf.log, "sleep") = 1

SetupOriginalCalls ==
    Cardinality({i \in 1..Len(st.log) : st.log[i] \in {"original_done", "original_raised"}})

\* C8: patching never stacks.  The saved original setup function is never
\* the setup wrapper and no saved original refresh method is a refresh
\* wrapper, whatever calls of inject_roomiq_sensors and of
\* async_setup_roomiq_sensors came before; so a call of the patched setup
\* calls the sibling's setup once and a refresh calls the sibling's refresh
\* once, with no more than the one 5 second delay.
C8_NeverStacked ==
    /\ original_async_setup_entry # SETUP_WRAPPER
    /\ nexia_async_setup_entry = SETUP_WRAPPER => original_async_setup_entry = NEXIA_SETUP
    /\ \A a \in DOMAIN original_update_method :
          original_update_method[a].fn = NEXIA_UPDATE
    /\ \A i \in 1..Len(st.log) : st.log[i] # "recursion"
    /\ SetupOriginalCalls <= 1
    /\ (st.pc \in {"sleep", "roomiq", "returned"}) => SetupOriginalCalls = 1
    /\ Count(rf.log, "recursion") = 0
    /\ Count(rf.log, "original") <= 1
    /\ Count(rf.log, "sleep") <= 1
    /\ rf.pc = "done" => Count(rf.log, "original") = 1

\* async_setup_roomiq_sensors has run again on a coordinator it had wrapped.
C8_Witness ==
    /\ st.pc = "returned"
    /\ \E i \in 1..Len(st.log) : st.log[i] = "already_wrapped"
    /\ injection_complete

\* C9: in the wrapped refresh a request that fails does not stop the
\* requests to the zones after it, and whatever fails while requesting and
\* waiting, enumerating included, the original is still called exactly once
\* and its result or exception is the outcome of the wrapped refresh.
C9_FailuresDoNotStopRefresh ==
    /\ (rf.wrapped /\ rf.pc \in {"sleep", "original", "done"}) =>
          \A i \in 1..Len(rf.enumerated) :
             /\ i <= Len(rf.log)
             /\ rf.log[i].ev \in Requests
             /\ rf.log[i].arg = rf.enumerated[i].zone
    /\ (rf.wrapped /\ rf.pc = "done") => OriginalOnceAndLast

\* The first request failed, the later ones were sent all the same, and the
\* original raised, which is what the wrapped refresh raised.
C9_Witness ==
    /\ rf.pc = "done"
    /\ rf.wrapped
    /\ Len(rf.enumerated) = 3
    /\ rf.log[1].ev = "request_failed"
    /\ rf.log[2].ev = "request"
    /\ rf.result = "UpdateFailed"

\* C10: async_setup returns True only once the sibling's setup function is
\* the wrapper and every config entry its check found has been reloaded, the
\* function having been replaced before the first reload began; an exception
\* in the injection or in a reload makes it return False.
C10_TrueOnlyAfterReloads ==
    /\ boot.result \in {"pending", "True", "False"}
    /\ boot.result # "pending" <=> boot.pc = "done"
    /\ boot.result = "True" =>
          /\ nexia_async_setup_entry = SETUP_WRAPPER
          /\ boot.found # {}
          /\ boot.found \subseteq boot.reloaded
          /\ boot.patched_first
          /\ ~boot.raised
    /\ boot.raised => boot.pc = "done" /\ boot.result = "False"
    /\ boot.patched_first

\* async_setup found both entries, reloaded both and returned True.
C10_Witness ==
    /\ boot.result = "True"
    /\ boot.found = {1, 2}
    /\ boot.reloaded = {1, 2}

====
